---- MODULE Spec2Model ----
(***************************************************************************)
(* Model of pipeline_scripts/bedrock_models.py: the Bedrock manifold       *)
(* pipeline.  Three parts of class Pipeline are modelled:                  *)
(*   - the model catalog (get_east_models, get_cross_region_profiles,      *)
(*     get_west_models, get_models) and the routing helpers                *)
(*     (get_model_region, get_runtime_client);                             *)
(*   - the refresh of the catalog field self.pipelines, step by step, with *)
(*     readers interleaved;                                                *)
(*   - one dispatch call (pipe, process_image, stream_response,            *)
(*     get_completion) and the host draining the returned generator.       *)
(***************************************************************************)
EXTENDS Integers, Sequences, FiniteSets, TLC

(***************************************************************************)
(* Bounds of the model.                                                    *)
(***************************************************************************)
\* longest foundation-model listing a region returns
MaxLen == 1
\* longest inference-profile listing
MaxProfiles == 1

(***************************************************************************)
(* What the provider's listing calls can return.                           *)
(***************************************************************************)
ModelIds == {"m1", "m2"}
LifecycleStatuses == {"ACTIVE", "LEGACY"}
\* the value of profile.get("region"): "absent" stands for a missing key
ProfileRegions == {"absent", "eu-west-1"}

ModelSummaries ==
    [modelId : ModelIds, modelName : {"name"}, status : LifecycleStatuses]

ProfileSummaries ==
    [modelId : ModelIds, modelName : {"name"}, status : LifecycleStatuses,
     region : ProfileRegions]

SeqsUpTo(S, n) == UNION {[1..k -> S] : k \in 0..n}

\* a call either raises (ok = FALSE) or returns a listing
Raised == [ok |-> FALSE, items |-> <<>>]

ListingOutcomes ==
    {Raised} \cup {[ok |-> TRUE, items |-> l] : l \in SeqsUpTo(ModelSummaries, MaxLen)}

ProfileOutcomes ==
    {Raised} \cup
    {[ok |-> TRUE, items |-> l] : l \in SeqsUpTo(ProfileSummaries, MaxProfiles)}

(***************************************************************************)
(* The catalog.                                                            *)
(***************************************************************************)
IdsOf(models) == {models[i].id : i \in 1..Len(models)}

EastEntry(model) ==
    [id |-> model.modelId, name |-> model.modelName, region |-> "us-east-1",
     description |-> <<model.modelName, " - us-east-1">>]

EastSentinel ==
    [id |-> "error", name |-> "Error fetching east models", region |-> "us-east-1"]

get_east_models(response) ==
    IF response.ok
    THEN LET kept == SelectSeq(response.items, LAMBDA m : m.status = "ACTIVE")
         IN  [i \in 1..Len(kept) |-> EastEntry(kept[i])]
    ELSE <<EastSentinel>>

\* Line 77 builds the description from model['modelName'], but inside
\* get_cross_region_profiles only `profile` is bound: evaluating the entry
\* raises NameError for every profile that passes the filter.
ProfileEntryRaises(profile) == TRUE

ProfileEntry(profile) ==
    [id |-> profile.modelId, name |-> profile.modelName,
     region |-> IF profile.region = "absent" THEN "us-east-1" ELSE profile.region,
     description |-> <<profile.modelName, " - us-east-1 (cross-region)">>]

ProfileQualifies(profile, east_ids) ==
    profile.status = "ACTIVE" /\ profile.modelId \notin east_ids

get_cross_region_profiles(response, east_ids) ==
    IF ~response.ok
    THEN <<>>
    ELSE LET kept == SelectSeq(response.items,
                               LAMBDA p : ProfileQualifies(p, east_ids))
         IN  IF \E i \in 1..Len(kept) : ProfileEntryRaises(kept[i])
             THEN <<>>     \* the NameError is caught by the except clause
             ELSE [i \in 1..Len(kept) |-> ProfileEntry(kept[i])]

WestEntry(model) ==
    [id |-> model.modelId, name |-> model.modelName, region |-> "us-west-2",
     description |-> <<model.modelName, " - us-west-2">>]

WestSentinel ==
    [id |-> "error", name |-> "Error fetching west models", region |-> "us-west-2"]

\* variant: the filter forgets the identifiers seen from the east
WestQualifiesAnyId(model, east_ids) == model.status = "ACTIVE"

WestQualifies(model, east_ids) ==
    model.status = "ACTIVE" /\ model.modelId \notin east_ids

get_west_models(response, east_ids) ==
    IF response.ok
    THEN LET kept == SelectSeq(response.items, LAMBDA m : WestQualifies(m, east_ids))
         IN  [i \in 1..Len(kept) |-> WestEntry(kept[i])]
    ELSE <<WestSentinel>>

\* src is the record of what the three listing calls return
get_models(src) ==
    LET east_models == get_east_models(src.east)
        east_ids == IdsOf(east_models)
        cross_profiles == get_cross_region_profiles(src.profiles, east_ids)
        west_models == get_west_models(src.west, east_ids)
    IN  east_models \o cross_profiles \o west_models

(***************************************************************************)
(* Routing.                                                                *)
(***************************************************************************)
\* the identifiers looked up: the listed ones and one no source lists
LookupIds == ModelIds \cup {"zz"}

RECURSIVE ScanRegion(_, _, _)
ScanRegion(models, model_id, i) ==
    IF i > Len(models) THEN "us-east-1"
    ELSE IF models[i].id = model_id THEN models[i].region
    ELSE ScanRegion(models, model_id, i + 1)

get_model_region(models, model_id) == ScanRegion(models, model_id, 1)

\* variant: the region literal is mistyped
get_runtime_client_typo(region) ==
    IF region = "us-east-2" THEN "east_bedrock_runtime" ELSE "west_bedrock_runtime"

get_runtime_client(region) ==
    IF region = "us-east-1" THEN "east_bedrock_runtime" ELSE "west_bedrock_runtime"

\* the region each runtime client was built for in __init__
ClientRegion ==
    [h \in {"east_bedrock_runtime", "west_bedrock_runtime"} |->
        IF h = "east_bedrock_runtime" THEN "us-east-1" ELSE "us-west-2"]

(***************************************************************************)
(* Dispatch: the host's request.                                           *)
(***************************************************************************)
\* most messages in one request
MaxMsgs == 2
\* most events one transport stream delivers
MaxEvents == 2

\* line 130: the image cap
MaxImages == 20
\* lines 143-144: sampling defaults; temperature and top_p in tenths
DefaultTemperature == 5
DefaultTopK == 200
DefaultTopP == 9

\* An image reference, by the features of the url string the code inspects:
\* scheme "data" when it starts with "data:image", comma when it contains
\* ',', png when it ends with ".png", reachable when requests.get returns.
InlineUrl == [scheme |-> "data", comma |-> TRUE, png |-> FALSE, reachable |-> TRUE]
InlineNoCommaUrl == [scheme |-> "data", comma |-> FALSE, png |-> FALSE, reachable |-> TRUE]
RemoteUrl == [scheme |-> "http", comma |-> FALSE, png |-> TRUE, reachable |-> TRUE]
RemoteDownUrl == [scheme |-> "http", comma |-> FALSE, png |-> FALSE, reachable |-> FALSE]

TextItem == [type |-> "text", text |-> "describe"]
ImageItem(u) == [type |-> "image_url", image_url |-> [url |-> u]]
OtherItem == [type |-> "input_audio"]

ImageRun(n) == [i \in 1..n |-> ImageItem(InlineUrl)]

\* the content of one raw message: a flat string or a list of items
ContentLists ==
    { <<ImageItem(InlineUrl)>>, <<ImageItem(RemoteUrl)>>,
      <<ImageItem(RemoteDownUrl)>>, <<ImageItem(InlineNoCommaUrl)>>,
      <<OtherItem, ImageItem(InlineUrl), TextItem>>,
      ImageRun(MaxImages - 1), ImageRun(MaxImages), ImageRun(MaxImages + 1) }

RawMessages ==
    {[role |-> "user", flat |-> TRUE, content |-> "hello"]} \cup
    {[role |-> "user", flat |-> FALSE, content |-> c] : c \in ContentLists}

\* body without its "stream" key; the empty body is the empty function
Bodies == { <<>>, [temperature |-> 7, top_k |-> 50, top_p |-> 10] }

\* the arguments of pipe once pop_system_message has split off the system
\* message ("" when there is none)
Requests ==
    [messages : SeqsUpTo(RawMessages, MaxMsgs), system_message : {"", "be brief"},
     model_id : {"m2", "zz"}, body : Bodies]

(***************************************************************************)
(* Dispatch: normalization (pipe, lines 121-137) and process_image.        *)
(***************************************************************************)
NoBlock == [none |-> TRUE]

process_image(image) ==
    IF image.url.scheme = "data"
    THEN IF image.url.comma
         THEN [error |-> "",
               block |-> [image |-> [format |-> IF image.url.png THEN "png" ELSE "jpeg",
                                     source |-> [bytes |-> "decoded"]]]]
         \* base64_string is never bound
         ELSE [error |-> "local variable 'base64_string' referenced before assignment",
               block |-> NoBlock]
    ELSE IF ~image.url.reachable
         THEN [error |-> "connection failed", block |-> NoBlock]
         \* requests.get(...).content is a bytes object: .read() does not exist
         ELSE [error |-> "'bytes' object has no attribute 'read'", block |-> NoBlock]

\* variant: the comparison is off by one
QuotaReachedLate(image_count) == image_count > MaxImages

QuotaReached(image_count) == image_count >= MaxImages

\* the inner loop over message["content"], from item i on; image_count is the
\* counter of the call, calls the number of process_image invocations so far
RECURSIVE ProcessItems(_, _, _, _, _)
ProcessItems(items, i, processed_content, image_count, calls) ==
    IF i > Len(items)
    THEN [error |-> "", content |-> processed_content,
          image_count |-> image_count, calls |-> calls]
    ELSE LET item == items[i] IN
         IF item.type = "text"
         THEN ProcessItems(items, i + 1, Append(processed_content, [text |-> item.text]),
                           image_count, calls)
         ELSE IF item.type = "image_url"
         THEN IF QuotaReached(image_count)
              THEN [error |-> "Maximum of 20 images per API call exceeded",
                    content |-> processed_content,
                    image_count |-> image_count, calls |-> calls]
              ELSE LET processed_image == process_image(item.image_url) IN
                   IF processed_image.error # ""
                   THEN [error |-> processed_image.error, content |-> processed_content,
                         image_count |-> image_count, calls |-> calls + 1]
                   ELSE ProcessItems(items, i + 1,
                                     Append(processed_content, processed_image.block),
                                     image_count + 1, calls + 1)
         ELSE ProcessItems(items, i + 1, processed_content, image_count, calls)

\* the outer loop over messages, from message m on
RECURSIVE ProcessMessages(_, _, _, _, _)
ProcessMessages(messages, m, processed_messages, image_count, calls) ==
    IF m > Len(messages)
    THEN [error |-> "", messages |-> processed_messages, calls |-> calls]
    ELSE LET message == messages[m] IN
         IF message.flat
         THEN ProcessMessages(messages, m + 1,
                  Append(processed_messages,
                         [role |-> message.role, content |-> <<[text |-> message.content]>>]),
                  image_count, calls)
         ELSE LET r == ProcessItems(message.content, 1, <<>>, image_count, calls) IN
              IF r.error # ""
              THEN [error |-> r.error, messages |-> processed_messages, calls |-> r.calls]
              ELSE ProcessMessages(messages, m + 1,
                       Append(processed_messages,
                              [role |-> message.role, content |-> r.content]),
                       r.image_count, r.calls)

Normalize(messages) == ProcessMessages(messages, 1, <<>>, 0, 0)

(***************************************************************************)
(* Dispatch: payloads and the two response paths.                          *)
(***************************************************************************)
\* body.get(key, default)
Get(body, key, default) == IF key \in DOMAIN body THEN body[key] ELSE default

BuildPayload(model_id, processed_messages, system_message, body) ==
    [modelId |-> model_id,
     messages |-> processed_messages,
     system |-> <<[text |-> IF system_message # "" THEN system_message
                            ELSE "you are an intelligent ai assistant"]>>,
     inferenceConfig |-> [temperature |-> Get(body, "temperature", DefaultTemperature)],
     additionalModelRequestFields |->
         [top_k |-> Get(body, "top_k", DefaultTopK),
          top_p |-> Get(body, "top_p", DefaultTopP)]]

\* del payload[key] for each key that is present
Without(payload, keys) == [k \in DOMAIN payload \ keys |-> payload[k]]

\* variant: only the system prompt is removed
StreamPayloadKeepsFields(payload) == Without(payload, {"system"})

\* what stream_response passes to converse_stream
StreamPayload(payload) == Without(payload, {"system", "additionalModelRequestFields"})

\* what get_completion passes to converse
CompletionPayload(payload) == payload

\* converse either raises or returns a response; content is the list at
\* response['output']['message']['content']
ConverseOutcomes ==
    { [raised |-> TRUE, content |-> <<>>],
      [raised |-> FALSE, content |-> <<>>],
      [raised |-> FALSE, content |-> <<[text |-> "answer"]>>] }

get_completion_result(outcome) ==
    IF outcome.raised THEN [error |-> "converse failed", text |-> ""]
    ELSE IF Len(outcome.content) = 0 THEN [error |-> "list index out of range", text |-> ""]
    ELSE [error |-> "", text |-> outcome.content[1].text]

\* the events a transport stream delivers: a content delta, another event
\* (messageStart, messageStop, metadata), or a fault of the event stream
StreamEvents == {"contentBlockDelta", "other", "fault"}

ErrorString(e) == [prefix |-> "Error: ", text |-> e]
Completion(t) == [prefix |-> "", text |-> t]
Generator == [prefix |-> "", text |-> "<generator>"]
NoResult == [prefix |-> "", text |-> "<none>"]
NoPayload == [none |-> TRUE]

(***************************************************************************)
(* State.                                                                  *)
(***************************************************************************)
VARIABLES
    pipelines,      \* self.pipelines, the published catalog
    src,            \* what the listing calls returned to the latest get_models
                    \* (followed under Spec and SpecPipe)
    committed,      \* the list the latest completed get_models call returned
    rpc,            \* position of the refresh in progress inside get_models
    east_models,    \* locals of get_models
    cross_profiles,
    west_models,
    scan,           \* the list a get_model_region call in progress iterates
    req,            \* the arguments of the dispatch calls
    ppc,            \* position of the dispatch call and of its generator
    result,         \* what pipe returned to the host
    image_calls,    \* process_image invocations during the call
    invocations,    \* transport invocations during the call
    gen,            \* the arguments the returned generator holds
    sent,           \* the latest payload sent on each path, with its client
    yielded,        \* text deltas the generator has yielded
    consumed        \* events the generator has taken from the stream

catalogVars == <<pipelines, src, committed>>
refreshVars == <<rpc, east_models, cross_profiles, west_models>>
pipeVars == <<req, ppc, result, image_calls, invocations, gen, sent, yielded, consumed>>
vars == <<catalogVars, refreshVars, scan, pipeVars>>

Sources == [east : ListingOutcomes, profiles : ProfileOutcomes, west : ListingOutcomes]

NoScan == [active |-> FALSE]
NoRequest == [none |-> TRUE]
NothingSent == [blocking |-> NoPayload, streaming |-> NoPayload]

RefreshIdle ==
    /\ rpc = "idle"
    /\ east_models = <<>>
    /\ cross_profiles = <<>>
    /\ west_models = <<>>

PipeIdle ==
    /\ ppc = "idle"
    /\ result = NoResult
    /\ image_calls = 0
    /\ invocations = 0
    /\ gen = NoPayload
    /\ sent = NothingSent
    /\ yielded = <<>>
    /\ consumed = 0

(***************************************************************************)
(* Spec: the catalog as a function of what the sources return.             *)
(***************************************************************************)
\* __init__ ends with self.pipelines = self.get_models()
Init ==
    /\ src \in Sources
    /\ pipelines = get_models(src)
    /\ committed = pipelines
    /\ RefreshIdle
    /\ scan = NoScan
    /\ req = NoRequest
    /\ PipeIdle

\* on_valves_updated: self.pipelines = self.get_models().  Every combination
\* of answers is an initial state; from one refresh to the next the answer of
\* one source changes.
RefreshWith(new) ==
    /\ src' = new
    /\ pipelines' = get_models(new)
    /\ committed' = pipelines'
    /\ UNCHANGED <<refreshVars, scan, pipeVars>>

on_valves_updated ==
    \/ \E o \in ListingOutcomes : RefreshWith([src EXCEPT !.east = o])
    \/ \E o \in ProfileOutcomes : RefreshWith([src EXCEPT !.profiles = o])
    \/ \E o \in ListingOutcomes : RefreshWith([src EXCEPT !.west = o])

Next == on_valves_updated

Spec == Init /\ [][Next]_vars

(***************************************************************************)
(* SpecSwap: a refresh step by step, with the dispatch's lookup of the     *)
(* catalog (line 147, get_model_region) interleaved.                       *)
(***************************************************************************)
NoSources == [none |-> TRUE]

InitSwap ==
    /\ \E s \in Sources : pipelines = get_models(s)
    /\ src = NoSources
    /\ committed = pipelines
    /\ RefreshIdle
    /\ scan = NoScan
    /\ req = NoRequest
    /\ PipeIdle

\* variant: the field is filled in place while the catalog is built
FieldFilledInPlace(field, built) == built

\* Line 36, self.pipelines = self.get_models(): the right-hand side is
\* evaluated to the end before the field is assigned, so while get_models has
\* built only `built` the field still holds `field`.
FieldDuring(field, built) == field

refresh_east ==
    /\ rpc = "idle"
    /\ \E o \in ListingOutcomes : east_models' = get_east_models(o)
    /\ rpc' = "profiles"
    /\ pipelines' = FieldDuring(pipelines, east_models')
    /\ UNCHANGED <<src, committed, cross_profiles, west_models, scan, pipeVars>>

refresh_profiles ==
    /\ rpc = "profiles"
    /\ \E o \in ProfileOutcomes :
           cross_profiles' = get_cross_region_profiles(o, IdsOf(east_models))
    /\ rpc' = "west"
    /\ pipelines' = FieldDuring(pipelines, east_models \o cross_profiles')
    /\ UNCHANGED <<src, committed, east_models, west_models, scan, pipeVars>>

refresh_west ==
    /\ rpc = "west"
    /\ \E o \in ListingOutcomes :
           west_models' = get_west_models(o, IdsOf(east_models))
    /\ rpc' = "assign"
    /\ pipelines' = FieldDuring(pipelines, east_models \o cross_profiles \o west_models')
    /\ UNCHANGED <<src, committed, east_models, cross_profiles, scan, pipeVars>>

\* get_models returns (line 112) and the field is assigned (line 36 or 25)
refresh_assign ==
    /\ rpc = "assign"
    /\ pipelines' = east_models \o cross_profiles \o west_models
    /\ committed' = east_models \o cross_profiles \o west_models
    /\ rpc' = "idle"
    /\ east_models' = <<>>
    /\ cross_profiles' = <<>>
    /\ west_models' = <<>>
    /\ UNCHANGED <<src, scan, pipeVars>>

\* `for model in self.pipelines` reads the field once and iterates that list
lookup_begin ==
    /\ ~scan.active
    /\ \E id \in LookupIds :
           scan' = [active |-> TRUE, list |-> pipelines, complete |-> committed,
                    model_id |-> id]
    /\ UNCHANGED <<catalogVars, refreshVars, pipeVars>>

lookup_return ==
    /\ scan.active
    /\ scan' = NoScan
    /\ UNCHANGED <<catalogVars, refreshVars, pipeVars>>

NextSwap ==
    \/ refresh_east
    \/ refresh_profiles
    \/ refresh_west
    \/ refresh_assign
    \/ lookup_begin
    \/ lookup_return

SpecSwap == InitSwap /\ [][NextSwap]_vars

(***************************************************************************)
(* SpecPipe: dispatch calls on one request, and the host draining the      *)
(* generator a streaming call returns.                                     *)
(***************************************************************************)
\* the catalog the dispatch calls route with
PipeSources ==
    [east |-> [ok |-> TRUE,
               items |-> <<[modelId |-> "m1", modelName |-> "name", status |-> "ACTIVE"]>>],
     profiles |-> [ok |-> TRUE, items |-> <<>>],
     west |-> [ok |-> TRUE,
               items |-> <<[modelId |-> "m2", modelName |-> "name", status |-> "ACTIVE"]>>]]

InitPipe ==
    /\ src = PipeSources
    /\ pipelines = get_models(src)
    /\ committed = pipelines
    /\ RefreshIdle
    /\ scan = NoScan
    /\ req \in Requests
    /\ PipeIdle

\* the value of body["stream"], or "absent"
StreamOptions == {"absent", "true", "false"}

WithStream(body, option) ==
    IF option = "absent" THEN body ELSE body @@ ("stream" :> (option = "true"))

\* pipe, lines 114-153.  On the streaming path the call returns the generator
\* object: none of stream_response's body has run yet.
pipe(option) ==
    LET body == WithStream(req.body, option)
        n == Normalize(req.messages)
        payload == BuildPayload(req.model_id, n.messages, req.system_message, body)
        region == get_model_region(pipelines, req.model_id)
    IN  /\ image_calls' = n.calls
        /\ yielded' = <<>>
        /\ consumed' = 0
        /\ IF n.error # ""
           THEN /\ result' = ErrorString(n.error)
                /\ ppc' = "returned"
                /\ invocations' = 0
                /\ gen' = NoPayload
                /\ sent' = sent
           ELSE IF Get(body, "stream", FALSE)
           THEN /\ result' = Generator
                /\ ppc' = "pending"
                /\ invocations' = 0
                /\ gen' = [payload |-> payload, region |-> region]
                /\ sent' = sent
           ELSE \E outcome \in ConverseOutcomes :
                  LET r == get_completion_result(outcome) IN
                    /\ sent' = [sent EXCEPT !.blocking =
                                   [client |-> get_runtime_client(region),
                                    payload |-> CompletionPayload(payload)]]
                    /\ invocations' = 1
                    /\ gen' = NoPayload
                    /\ result' = IF r.error # "" THEN ErrorString(r.error)
                                 ELSE Completion(r.text)
                    /\ ppc' = "returned"
        /\ UNCHANGED <<catalogVars, refreshVars, scan, req>>

pipe_call == \E option \in StreamOptions : pipe(option)

\* stream_response, lines 171-176: runs when the host first advances the
\* generator; converse_stream raises or returns the event stream.  A fault
\* here is raised into the host's iteration.
drain_start ==
    /\ ppc = "pending"
    /\ sent' = [sent EXCEPT !.streaming =
                   [client |-> get_runtime_client(gen.region),
                    payload |-> StreamPayload(gen.payload)]]
    /\ invocations' = invocations + 1
    /\ \E raised \in BOOLEAN : ppc' = IF raised THEN "faulted" ELSE "streaming"
    /\ UNCHANGED <<catalogVars, refreshVars, scan, req, result, image_calls, gen,
                   yielded, consumed>>

\* lines 177-179: one event of the stream
drain_event ==
    /\ ppc = "streaming"
    /\ consumed < MaxEvents
    /\ consumed' = consumed + 1
    /\ \E chunk \in StreamEvents :
         /\ yielded' = IF chunk = "contentBlockDelta" THEN Append(yielded, "delta")
                       ELSE yielded
         /\ ppc' = IF chunk = "fault" THEN "faulted" ELSE "streaming"
    /\ UNCHANGED <<catalogVars, refreshVars, scan, req, result, image_calls,
                   invocations, gen, sent>>

\* the stream is exhausted and the generator returns
drain_end ==
    /\ ppc = "streaming"
    /\ ppc' = "ended"
    /\ UNCHANGED <<catalogVars, refreshVars, scan, req, result, image_calls,
                   invocations, gen, sent, yielded, consumed>>

NextPipe ==
    \/ pipe_call
    \/ drain_start
    \/ drain_event
    \/ drain_end

SpecPipe == InitPipe /\ [][NextPipe]_vars

(***************************************************************************)
(* Properties of the catalog (Spec).                                       *)
(***************************************************************************)
Active(items) == SelectSeq(items, LAMBDA m : m.status = "ACTIVE")
ListedIds(items) == {items[i].modelId : i \in 1..Len(items)}
EntriesWithId(id) == {i \in 1..Len(pipelines) : pipelines[i].id = id}

\* C1: whatever the three sources return or raise, no two entries of the
\* catalog returned by get_models have the same id.
C1_NoDuplicateIds ==
    \A i, j \in 1..Len(pipelines) : i # j => pipelines[i].id # pipelines[j].id

\* the active profiles whose identifier was not seen from the east
QualifyingProfiles ==
    IF src.profiles.ok
    THEN SelectSeq(src.profiles.items,
                   LAMBDA p : p.status = "ACTIVE"
                              /\ p.modelId \notin IdsOf(get_east_models(src.east)))
    ELSE <<>>

\* the active west models whose identifier was not seen from the east
QualifyingWest ==
    IF src.west.ok
    THEN SelectSeq(src.west.items,
                   LAMBDA m : m.status = "ACTIVE"
                              /\ m.modelId \notin IdsOf(get_east_models(src.east)))
    ELSE <<>>

\* C5: when the east listing call raises, the catalog still holds the sentinel
\* entry "error" tagged us-east-1, and the qualifying entries of the profile
\* source and of the west source are still included.
C5_EastFailureIsolated ==
    ~src.east.ok =>
        /\ \E i \in 1..Len(pipelines) :
               pipelines[i].id = "error" /\ pipelines[i].region = "us-east-1"
        /\ \A k \in 1..Len(QualifyingProfiles) :
               \E i \in 1..Len(pipelines) : pipelines[i] = ProfileEntry(QualifyingProfiles[k])
        /\ \A k \in 1..Len(QualifyingWest) :
               \E i \in 1..Len(pipelines) : pipelines[i] = WestEntry(QualifyingWest[k])

\* C6: when no source call raises, the catalog is the active east models, then
\* the active profiles not seen from the east, then the active west models not
\* seen from the east, each group in its source's order.
C6_CatalogIsTheThreeGroups ==
    (src.east.ok /\ src.profiles.ok /\ src.west.ok) =>
        pipelines =
            [i \in 1..Len(Active(src.east.items)) |-> EastEntry(Active(src.east.items)[i])]
            \o [i \in 1..Len(QualifyingProfiles) |-> ProfileEntry(QualifyingProfiles[i])]
            \o [i \in 1..Len(QualifyingWest) |-> WestEntry(QualifyingWest[i])]

\* C7 as stated: for every identifier present in both the east listing and the
\* west listing, the catalog's entry for it is the east one, no west entry is
\* kept, and lookup resolves it to us-east-1.
C7_ListedInBothKeepsEast ==
    (src.east.ok /\ src.west.ok) =>
        \A id \in ListedIds(src.east.items) \cap ListedIds(src.west.items) :
            /\ \A i \in EntriesWithId(id) : pipelines[i].region = "us-east-1"
            /\ get_model_region(pipelines, id) = "us-east-1"

\* C7 amended: for every identifier that is ACTIVE in the east listing and
\* present in the west listing, the catalog holds the east entry for it, holds
\* no west entry for it, and lookup resolves it to us-east-1.
C7_ActiveInEastKeepsEast ==
    (src.east.ok /\ src.west.ok) =>
        \A id \in ListedIds(Active(src.east.items)) \cap ListedIds(src.west.items) :
            /\ EntriesWithId(id) # {}
            /\ \A i \in EntriesWithId(id) : pipelines[i].region = "us-east-1"
            /\ get_model_region(pipelines, id) = "us-east-1"

C7_Witness ==
    /\ src.east.ok
    /\ src.west.ok
    /\ \E id \in ListedIds(Active(src.east.items)) \cap ListedIds(Active(src.west.items)) :
           EntriesWithId(id) # {}

\* C9: after any refreshes and for every model identifier, the lookup and the
\* choice of client never fail, the client chosen is one of the two built in
\* __init__ and is the one of the region the lookup returned; every region tag
\* in the catalog is us-east-1 or us-west-2; an identifier absent from the
\* catalog resolves to us-east-1 and its client.
C9_RoutingTotal ==
    /\ \A i \in 1..Len(pipelines) : pipelines[i].region \in {"us-east-1", "us-west-2"}
    /\ \A id \in LookupIds \cup {"error"} :
         LET region == get_model_region(pipelines, id)
             client == get_runtime_client(region)
         IN  /\ client \in DOMAIN ClientRegion
             /\ ClientRegion[client] = region
             /\ id \notin IdsOf(pipelines) =>
                    region = "us-east-1" /\ client = "east_bedrock_runtime"

C9_Witness ==
    /\ \E i \in 1..Len(pipelines) : pipelines[i].region = "us-west-2"
    /\ \E i \in 1..Len(pipelines) : pipelines[i].region = "us-east-1"
    /\ "zz" \notin IdsOf(pipelines)
    /\ \E k \in 1..Len(QualifyingProfiles) : QualifyingProfiles[k].region = "eu-west-1"

(***************************************************************************)
(* Properties of the refresh (SpecSwap).                                   *)
(***************************************************************************)
\* C8: the field holds, at every instant of a refresh, the complete list the
\* latest completed get_models returned; it changes only in the one assignment
\* that ends a refresh, to the complete new list; a lookup iterates the
\* complete list that was published when it began; the steps of a dispatch's
\* lookup never change the field.
C8_PublishBySwap ==
    /\ [](pipelines = committed)
    /\ [](scan.active => scan.list = scan.complete)
    /\ [][/\ pipelines' # pipelines =>
                 /\ rpc = "assign"
                 /\ pipelines' = east_models \o cross_profiles \o west_models
          /\ scan' # scan => pipelines' = pipelines]_vars

\* a lookup that began before a swap is still running during the next refresh
C8_Witness ==
    /\ scan.active
    /\ scan.list # pipelines
    /\ rpc = "assign"
    /\ east_models \o cross_profiles \o west_models # pipelines

(***************************************************************************)
(* Properties of dispatch (SpecPipe).                                      *)
(***************************************************************************)
ImagesIn(message) ==
    IF message.flat THEN <<>>
    ELSE SelectSeq(message.content, LAMBDA item : item.type = "image_url")

\* the image items of the request, in order, across all messages
RECURSIVE ImagesFrom(_, _)
ImagesFrom(messages, m) ==
    IF m > Len(messages) THEN <<>>
    ELSE ImagesIn(messages[m]) \o ImagesFrom(messages, m + 1)

RequestImages == ImagesFrom(req.messages, 1)

\* process_image returns a block for this item
Resolves(item) == process_image(item.image_url).error = ""

\* a well-formed inline reference or a remote reference whose fetch succeeds
GoodReference(u) ==
    \/ u.scheme = "data" /\ u.comma
    \/ u.scheme = "http" /\ u.reachable

QuotaError == ErrorString("Maximum of 20 images per API call exceeded")

\* the call got past normalization: it returned the generator or invoked converse
Normalized == result = Generator \/ (ppc = "returned" /\ invocations = 1)

\* C2: every failure inside a dispatch call reaches the host as a string
\* prefixed "Error: ", on both paths; the host never observes a raised fault,
\* neither from pipe nor while draining the returned generator.
C2_FailuresAreErrorValues ==
    /\ ppc # "faulted"
    /\ (ppc = "returned" /\ Normalize(req.messages).error # "") =>
           result.prefix = "Error: "

\* C3: for the same raw messages, model id and sampling parameters, the
\* payload sent by a streaming call and the payload sent by a blocking call
\* have the same modelId, messages and temperature; "system" and the
\* top_k/top_p fields are in every blocking payload and in no streaming one.
C3_PayloadsAgree ==
    /\ sent.blocking # NoPayload =>
           /\ "system" \in DOMAIN sent.blocking.payload
           /\ DOMAIN sent.blocking.payload.additionalModelRequestFields = {"top_k", "top_p"}
    /\ sent.streaming # NoPayload =>
           /\ "system" \notin DOMAIN sent.streaming.payload
           /\ "additionalModelRequestFields" \notin DOMAIN sent.streaming.payload
    /\ (sent.blocking # NoPayload /\ sent.streaming # NoPayload) =>
           /\ sent.streaming.payload.modelId = sent.blocking.payload.modelId
           /\ sent.streaming.payload.messages = sent.blocking.payload.messages
           /\ sent.streaming.payload.inferenceConfig.temperature
                  = sent.blocking.payload.inferenceConfig.temperature

C3_Witness ==
    /\ sent.blocking # NoPayload
    /\ sent.streaming # NoPayload
    /\ "temperature" \in DOMAIN req.body
    /\ req.system_message # ""
    /\ \E m \in 1..Len(sent.blocking.payload.messages) :
         \E b \in 1..Len(sent.blocking.payload.messages[m].content) :
            "image" \in DOMAIN sent.blocking.payload.messages[m].content[b]

ItemKinds(content) ==
    LET kept == SelectSeq(content, LAMBDA item : item.type \in {"text", "image_url"})
    IN  [i \in 1..Len(kept) |-> IF kept[i].type = "text" THEN "text" ELSE "image"]

BlockKinds(content) ==
    [i \in 1..Len(content) |-> IF "image" \in DOMAIN content[i] THEN "image" ELSE "text"]

\* C10: with the cap not reached, every image item whose reference is a
\* well-formed inline reference or a remote url whose fetch succeeds becomes one
\* image block at its place, text items become text blocks, other items are
\* skipped, and the call returns no error on account of an image item.
C10_GoodImagesBecomeBlocks ==
    (/\ ppc = "returned"
     /\ Len(RequestImages) <= MaxImages
     /\ \A i \in 1..Len(RequestImages) : GoodReference(RequestImages[i].image_url.url))
    => /\ invocations = 1
       /\ image_calls = Len(RequestImages)
       /\ \A m \in 1..Len(req.messages) :
            ~req.messages[m].flat =>
                BlockKinds(sent.blocking.payload.messages[m].content)
                    = ItemKinds(req.messages[m].content)

====
